---- MODULE Spec2Model ----
(***************************************************************************)
(* K-means (Lloyd's method) as the notebook 3_Unsupervised_Learning.ipynb  *)
(* describes it in its "Clustering / K-Means" cell: initialise the          *)
(* centroids, then iterate between assigning every row to the centroid     *)
(* that minimises the squared Euclidean distance and recomputing every     *)
(* centroid as the average of its rows.  The notebook calls the procedure  *)
(* through library constructors (sklearn KMeans, Spark ML KMeans); what    *)
(* the cell leaves open (the tie-break, the empty-cluster policy and the   *)
(* stop conditions) follows section 4.1 of the specification.              *)
(*                                                                         *)
(* The second part models the notebook's cells that run code: the three    *)
(* Spark ML pipelines fitted on the Articles dataframe and the functional  *)
(* primitives (map, filter, reduce, flatMap) of "From Python to Spark".    *)
(*                                                                         *)
(* Arithmetic is exact: a centroid is the pair (s, c) standing for the     *)
(* point s/c, kept in lowest terms, and distances and objectives are       *)
(* compared by cross-multiplication.                                       *)
(***************************************************************************)
EXTENDS Integers, Sequences, FiniteSets, TLC

\* Bounds of the model.
MaxN == 3       \* rows of a grid dataset
MaxCoord == 2   \* grid coordinates are 0..MaxCoord
MaxK == 3       \* cluster count K is 1..MaxK
MaxIter == 2    \* iteration caps are 1..MaxIter (0 stands for "no cap")
MaxLen == 3     \* lists handed to the functional primitives have 0..MaxLen elements
MaxVal == 1     \* arbitrary functions take their values in 0..MaxVal
MaxSlices == 2  \* an RDD has 1..MaxSlices partitions
MaxNest == 2    \* a list of lists has 0..MaxNest lists of 0..MaxNest elements

VARIABLES
    rows,       \* the dataset: a sequence of N rows, each a sequence of D integers
    K,          \* the cluster count
    init,       \* the initial centroids (kept for reference)
    maxIter,    \* the iteration cap, 0 when the loop runs uncapped
    cents,      \* the centroids, a function 0..K-1 -> (s, c)
    labels,     \* the assignment, a sequence of N labels (<<>> before the first step)
    changed,    \* whether the last assignment step changed some row's label
    moved,      \* whether the last update step moved some centroid
    iter,       \* iterations completed
    objs,       \* the objective after the update step of each completed iteration
    pc,         \* "assign", "update" or "done" ("idle" while a notebook cell runs)
    nb          \* the notebook cell being run: a record whose field cell names it

vars == <<rows, K, init, maxIter, cents, labels, changed, moved, iter, objs, pc, nb>>

\* No notebook cell is running.
NoCell == [cell |-> "none"]

-----------------------------------------------------------------------------
\* Exact arithmetic helpers.

Abs(x) == IF x < 0 THEN 0 - x ELSE x

RECURSIVE GCD(_, _)
GCD(a, b) == IF b = 0 THEN a ELSE GCD(b, a % b)

RECURSIVE Pow(_, _)
Pow(b, e) == IF e = 0 THEN 1 ELSE b * Pow(b, e - 1)

RECURSIVE SeqGCD(_, _)
SeqGCD(s, n) == IF n = 0 THEN 0 ELSE GCD(Abs(s[n]), SeqGCD(s, n - 1))

\* The point s/c in lowest terms.
Normalise(s, c) ==
    LET g == GCD(c, SeqGCD(s, Len(s)))
    IN  [s |-> [d \in 1..Len(s) |-> s[d] \div g], c |-> c \div g]

\* A row as a centroid.
Point(x) == [s |-> x, c |-> 1]

\* A rational n/d in lowest terms, and its order.
Rat(n, d) == LET g == GCD(d, Abs(n)) IN [n |-> n \div g, d |-> d \div g]
RatLeq(a, b) == a.n * b.d <= b.n * a.d
RatLess(a, b) == a.n * b.d < b.n * a.d

-----------------------------------------------------------------------------
\* Squared Euclidean distance ||x - mu||^2 = SqDistNum / SqDistDen.

RECURSIVE SqDistNumTo(_, _, _)
SqDistNumTo(x, mu, d) ==
    IF d = 0 THEN 0
    ELSE (mu.c * x[d] - mu.s[d]) * (mu.c * x[d] - mu.s[d]) + SqDistNumTo(x, mu, d - 1)

SqDistNum(x, mu) == SqDistNumTo(x, mu, Len(x))
SqDistDen(mu) == mu.c * mu.c

\* ||x - a||^2 <= ||x - b||^2
DistLeq(x, a, b) == SqDistNum(x, a) * SqDistDen(b) <= SqDistNum(x, b) * SqDistDen(a)
DistEq(x, a, b) == SqDistNum(x, a) * SqDistDen(b) = SqDistNum(x, b) * SqDistDen(a)

-----------------------------------------------------------------------------
\* The assignment step: "Assign X_j to the cluster C_k that minimizes
\* ||X_j - mu_k||^2".

\* Mutant of Minimizers: the comparison is reversed (the farthest centroids).
Maximizers(x, mu) ==
    {k \in DOMAIN mu : \A j \in DOMAIN mu : DistLeq(x, mu[j], mu[k])}

\* Mutant of Minimizers: clusters are numbered from 1.
MinimizersOneBased(x, mu) ==
    {k + 1 : k \in {k \in DOMAIN mu : \A j \in DOMAIN mu : DistLeq(x, mu[k], mu[j])}}

\* Mutant of Minimizers: the last centroid is left out of the comparison.
MinimizersSkipLast(x, mu) ==
    {k \in DOMAIN mu :
        \A j \in DOMAIN mu \ {Cardinality(DOMAIN mu) - 1} : DistLeq(x, mu[k], mu[j])}

\* The centroids at minimum squared distance from row x.
Minimizers(x, mu) ==
    {k \in DOMAIN mu : \A j \in DOMAIN mu : DistLeq(x, mu[k], mu[j])}

\* Mutant of TieBreak: the highest index wins a tie.
TieBreakHighest(S) == CHOOSE k \in S : \A j \in S : k >= j

\* Ties are broken by the lowest centroid index.
TieBreak(S) == CHOOSE k \in S : \A j \in S : k <= j

Nearest(x, mu) == TieBreak(Minimizers(x, mu))

\* Mutant of AssignAll: a tie is broken by the row's position, so equal rows
\* can land in different clusters.
AssignAllTiesByRow(rs, mu) ==
    [i \in 1..Len(rs) |->
        LET S == Minimizers(rs[i], mu)
        IN  CHOOSE k \in S :
                Cardinality({j \in S : j < k}) = (i - 1) % Cardinality(S)]

AssignAll(rs, mu) == [i \in 1..Len(rs) |-> Nearest(rs[i], mu)]

-----------------------------------------------------------------------------
\* The update step: "Recompute mu_k by averaging over all the points X_j in
\* the cluster C_k".

\* The rows assigned to cluster k.
Members(lab, k) == {i \in DOMAIN lab : lab[i] = k}

RECURSIVE SumCoord(_, _, _, _, _)
SumCoord(rs, lab, k, d, n) ==
    IF n = 0 THEN 0
    ELSE (IF lab[n] = k THEN rs[n][d] ELSE 0) + SumCoord(rs, lab, k, d, n - 1)

\* Mutant of Mean: the sums are divided by the number of all rows.
MeanOverAllRows(rs, lab, k) ==
    Normalise([d \in 1..Len(rs[1]) |-> SumCoord(rs, lab, k, d, Len(rs))], Len(rs))

\* The coordinate-wise mean of cluster k's rows (the cluster is not empty).
Mean(rs, lab, k) ==
    Normalise([d \in 1..Len(rs[1]) |-> SumCoord(rs, lab, k, d, Len(rs))],
              Cardinality(Members(lab, k)))

\* Mutant of KeepPrevious: an empty cluster's centroid is reset to the origin.
ResetToOrigin(mu, k) == [s |-> [d \in 1..Len(mu[k].s) |-> 0], c |-> 1]

\* A centroid with no assigned row keeps its previous value.
KeepPrevious(mu, k) == mu[k]

\* An update that moves a centroid half way to the mean of its cluster.
HalfWay(rs, lab, mu, k) ==
    IF Members(lab, k) = {}
    THEN KeepPrevious(mu, k)
    ELSE LET m == Mean(rs, lab, k)
         IN  Normalise([d \in 1..Len(m.s) |-> mu[k].s[d] * m.c + m.s[d] * mu[k].c],
                       2 * mu[k].c * m.c)

NewCentroid(rs, lab, mu, k) ==
    IF Members(lab, k) = {} THEN KeepPrevious(mu, k) ELSE Mean(rs, lab, k)

UpdateAll(rs, lab, mu) == [k \in DOMAIN mu |-> NewCentroid(rs, lab, mu, k)]

-----------------------------------------------------------------------------
\* The objective: sum over rows of the squared distance to the assigned
\* centroid, as a rational over the product of the centroids' denominators.

RECURSIVE DenProd(_, _)
DenProd(mu, k) == IF k < 0 THEN 1 ELSE SqDistDen(mu[k]) * DenProd(mu, k - 1)

RECURSIVE ObjNum(_, _, _, _, _)
ObjNum(rs, lab, mu, den, n) ==
    IF n = 0 THEN 0
    ELSE SqDistNum(rs[n], mu[lab[n]]) * (den \div SqDistDen(mu[lab[n]]))
         + ObjNum(rs, lab, mu, den, n - 1)

Objective(rs, lab, mu) ==
    LET den == DenProd(mu, Cardinality(DOMAIN mu) - 1)
    IN  Rat(ObjNum(rs, lab, mu, den, Len(rs)), den)

-----------------------------------------------------------------------------
\* The stop conditions: no row changed assignment, no centroid moved (with
\* exact arithmetic on the bounded datasets a small enough movement threshold
\* is passed exactly when nothing moved), or the iteration cap is hit.

Converged(ch, mv) == ~ch \/ ~mv

\* Mutant of CapHit: the cap is tested one iteration late.
CapHitLate(it, cap) == cap > 0 /\ it > cap

CapHit(it, cap) == cap > 0 /\ it >= cap

Stop(ch, mv, it, cap) == Converged(ch, mv) \/ CapHit(it, cap)

-----------------------------------------------------------------------------
\* Datasets and initialisations.

GridPoints == {<<v>> : v \in 0..MaxCoord}

\* Grid datasets list their rows in non-decreasing order: the procedure reads
\* a row's position only to store its label.
GridDatasets ==
    UNION {{[i \in 1..n |-> <<f[i]>>] :
              f \in {g \in [1..n -> 0..MaxCoord] :
                       \A i \in 1..(n - 1) : g[i] <= g[i + 1]}} : n \in 1..MaxN}

\* The literal end-to-end scenario of the specification's section 8.
ScenarioRows == <<<<0, 0>>, <<0, 1>>, <<10, 0>>, <<10, 1>>>>

\* The literal feature-scaling scenario of the specification's section 8.
ScaleRows == <<<<1, 1000>>, <<2, 1000>>, <<10, 1>>, <<11, 1>>>>

\* "If the features have very different scales you should normalize the data
\* first": min-max scaling of every feature, (x - min) / (max - min).  The
\* scaled rows are kept as integers: every feature is multiplied by the same
\* factor (the product of the ranges, reduced by the common divisor of all
\* entries), which changes no comparison of distances.
ColMin(rs, d) ==
    CHOOSE v \in {rs[i][d] : i \in 1..Len(rs)} : \A i \in 1..Len(rs) : v <= rs[i][d]
ColMax(rs, d) ==
    CHOOSE v \in {rs[i][d] : i \in 1..Len(rs)} : \A i \in 1..Len(rs) : v >= rs[i][d]
ColRange(rs, d) == ColMax(rs, d) - ColMin(rs, d)

RECURSIVE RangeProd(_, _)
RangeProd(rs, d) ==
    IF d = 0 THEN 1
    ELSE (IF ColRange(rs, d) = 0 THEN 1 ELSE ColRange(rs, d)) * RangeProd(rs, d - 1)

MinMaxUnreduced(rs) ==
    [i \in 1..Len(rs) |->
        [d \in 1..Len(rs[i]) |->
            IF ColRange(rs, d) = 0 THEN 0
            ELSE (rs[i][d] - ColMin(rs, d))
                     * (RangeProd(rs, Len(rs[1])) \div ColRange(rs, d))]]

RECURSIVE RowsGCD(_, _)
RowsGCD(rs, n) ==
    IF n = 0 THEN 0 ELSE GCD(SeqGCD(rs[n], Len(rs[n])), RowsGCD(rs, n - 1))

MinMaxScale(rs) ==
    LET u == MinMaxUnreduced(rs)
        g == RowsGCD(u, Len(u))
    IN  [i \in 1..Len(u) |-> [d \in 1..Len(u[i]) |-> IF g = 0 THEN 0 ELSE u[i][d] \div g]]

ScaledRows == MinMaxScale(ScaleRows)

Datasets == GridDatasets \cup {ScenarioRows, ScaleRows, ScaledRows}

\* "Initialize mu_k (with possibly random values)": a row of the dataset
\* (sampling) or any grid point of the dataset's dimension.
InitPoints(rs) ==
    {rs[i] : i \in 1..Len(rs)} \cup {p \in GridPoints : Len(p) = Len(rs[1])}

Init ==
    /\ rows \in Datasets
    /\ K \in 1..MaxK
    /\ maxIter \in 0..MaxIter
    /\ \E c0 \in [0..(K - 1) -> InitPoints(rows)] :
          /\ init = [k \in 0..(K - 1) |-> Point(c0[k])]
          /\ cents = [k \in 0..(K - 1) |-> Point(c0[k])]
    /\ labels = <<>>
    /\ changed = TRUE
    /\ moved = TRUE
    /\ iter = 0
    /\ objs = <<>>
    /\ pc = "assign"
    /\ nb = NoCell

\* A step a that also recomputes the centroids from the new labels.
AssignAndRecentre ==
    /\ pc = "assign"
    /\ labels' = AssignAll(rows, cents)
    /\ cents' = UpdateAll(rows, labels', cents)
    /\ changed' = (labels' # labels)
    /\ pc' = "update"
    /\ UNCHANGED <<rows, K, init, maxIter, moved, iter, objs, nb>>

\* Step a of an iteration.
Assign ==
    /\ pc = "assign"
    /\ labels' = AssignAll(rows, cents)
    /\ changed' = (labels' # labels)
    /\ pc' = "update"
    /\ UNCHANGED <<rows, K, init, maxIter, cents, moved, iter, objs, nb>>

\* Step b of an iteration, and the loop's test.
Update ==
    /\ pc = "update"
    /\ cents' = UpdateAll(rows, labels, cents)
    /\ moved' = (cents' # cents)
    /\ iter' = iter + 1
    /\ objs' = Append(objs, Objective(rows, labels, cents'))
    /\ pc' = IF Stop(changed, moved', iter', maxIter) THEN "done" ELSE "assign"
    /\ UNCHANGED <<rows, K, init, maxIter, labels, changed, nb>>

Next == Assign \/ Update

Spec == Init /\ [][Next]_vars

-----------------------------------------------------------------------------
\* Properties.

\* C1: monotonicity - the objective after the update step of iteration i+1
\* is less than or equal to the objective after the update step of
\* iteration i, for every dataset, K and initialisation.
C1_Monotone ==
    \A i \in 1..(Len(objs) - 1) : RatLeq(objs[i + 1], objs[i])

\* A run whose second iteration strictly lowered the objective.
C1_Witness ==
    /\ Len(objs) >= 2
    /\ RatLess(objs[2], objs[1])

\* Centroid mu is the point s/c.
IsPoint(mu, s, c) == \A d \in 1..Len(s) : mu.s[d] * c = s[d] * mu.c

\* The literal scenario, run to convergence with K = 2.
ScenarioConverged ==
    /\ rows = ScenarioRows
    /\ K = 2
    /\ pc = "done"
    /\ Converged(changed, moved)

\* Centroids [0, 0.5] and [10, 0.5], rows 0,1 together and rows 2,3 together.
ScenarioResult ==
    /\ \E a, b \in 0..1 :
          /\ a # b
          /\ IsPoint(cents[a], <<0, 1>>, 2)
          /\ IsPoint(cents[b], <<20, 1>>, 2)
    /\ labels[1] = labels[2]
    /\ labels[3] = labels[4]
    /\ labels[1] # labels[3]

\* Centroids [5, 0] and [5, 1], rows 0,2 together and rows 1,3 together.
ScenarioSplitResult ==
    /\ \E a, b \in 0..1 :
          /\ a # b
          /\ IsPoint(cents[a], <<5, 0>>, 1)
          /\ IsPoint(cents[b], <<5, 1>>, 1)
    /\ labels[1] = labels[3]
    /\ labels[2] = labels[4]
    /\ labels[1] # labels[2]

\* The two initial centroids are two different rows with the same first
\* coordinate (rows 0 and 1, or rows 2 and 3).
SameSideInit ==
    /\ init[0] # init[1]
    /\ init[0].s[1] = init[1].s[1]

\* C2 as stated: from any two initial centroids drawn from the four rows the
\* scenario converges to centroids [0,0.5] and [10,0.5], rows 0,1 in one
\* cluster and rows 2,3 in the other.
C2_Original == ScenarioConverged => ScenarioResult

\* C2 amended: the scenario converges to [0,0.5] and [10,0.5] with clusters
\* {0,1} and {2,3} from every choice of the two initial centroids among the
\* four rows except two different rows with the same first coordinate, from
\* which it converges to [5,0] and [5,1] with clusters {0,2} and {1,3}.
C2_Scenario ==
    ScenarioConverged =>
        IF SameSideInit THEN ScenarioSplitResult ELSE ScenarioResult

\* The scenario converged from two different rows to the stated result.
C2_Witness ==
    /\ ScenarioConverged
    /\ init[0] # init[1]
    /\ ~SameSideInit
    /\ ScenarioResult
    /\ iter >= 2

\* C3 as stated: with no iteration cap the loop terminates and runs at most
\* K^N iterations, the number of assignments of N rows to K labelled groups.
C3_Original == (maxIter = 0) => iter <= Pow(K, Len(rows))

\* C3 amended: with no iteration cap the loop terminates and runs at most
\* K^N + 1 iterations (the last one is the iteration that changes nothing).
C3_Terminates == (maxIter = 0) => iter <= Pow(K, Len(rows)) + 1

\* An uncapped run that ended after exactly K^N + 1 iterations.
C3_Witness ==
    /\ maxIter = 0
    /\ pc = "done"
    /\ iter = Pow(K, Len(rows)) + 1

\* Every row's assigned centroid is at minimum squared distance among all
\* K centroids.
AllNearest ==
    \A i \in 1..Len(rows) : \A j \in 0..(K - 1) :
        DistLeq(rows[i], cents[labels[i]], cents[j])

\* Every non-empty cluster's centroid is the coordinate-wise mean of its rows.
AllMeans ==
    \A k \in 0..(K - 1) :
        Members(labels, k) # {} =>
            \A d \in 1..Len(rows[1]) :
                cents[k].s[d] * Cardinality(Members(labels, k))
                    = cents[k].c * SumCoord(rows, labels, k, d, Len(rows))

\* C4: assignment consistency - once an iteration changed no row's
\* assignment, no row is strictly closer to another centroid than to its own.
C4_AssignmentConsistency ==
    (labels # <<>> /\ ~changed) => AllNearest

\* A converged run of at least two clusters in which the assignment changed
\* during the run and both clusters have rows.
C4_Witness ==
    /\ pc = "done"
    /\ ~changed
    /\ K >= 2
    /\ iter >= 3
    /\ \A k \in 0..(K - 1) : Members(labels, k) # {}

\* C5 as stated: whichever stop condition ended the loop, the result is a
\* local minimum - every row is assigned to a nearest centroid and every
\* non-empty cluster's centroid is the mean of its rows.
C5_Original == (pc = "done") => (AllNearest /\ AllMeans)

\* C5 amended: in every result each non-empty cluster's centroid is the mean
\* of its rows, and every row is assigned to a nearest centroid when the loop
\* ended by convergence (no row changed assignment, or no centroid moved); a
\* run ended by the iteration cap alone may return rows that are not assigned
\* to their nearest centroid.
C5_LocalMinimum ==
    (pc = "done") => (AllMeans /\ (Converged(changed, moved) => AllNearest))

\* A converged result with two non-empty clusters reached after the
\* assignment changed during the run.
C5_Witness ==
    /\ pc = "done"
    /\ Converged(changed, moved)
    /\ iter >= 3
    /\ K >= 2
    /\ \A k \in 0..(K - 1) : Members(labels, k) # {}
    /\ cents # init

\* The centroids at minimum squared distance from row i, stated directly.
Tied(i) ==
    {k \in 0..(K - 1) : \A j \in 0..(K - 1) : DistLeq(rows[i], cents[k], cents[j])}

\* C7: tie-breaking - after the assignment step a row at the same minimum
\* squared distance from two or more centroids carries the lowest index
\* among them.
C7_TieBreakLowestIndex ==
    (pc = "update") =>
        \A i \in 1..Len(rows) :
            /\ labels[i] \in Tied(i)
            /\ \A k \in Tied(i) : labels[i] <= k

\* After an assignment step: one row tied between two different centroids,
\* assigned to the lower of the two.
C7_Witness ==
    /\ pc = "update"
    /\ \E i \in 1..Len(rows) : \E a, b \in Tied(i) :
          /\ a < b
          /\ cents[a] # cents[b]
          /\ labels[i] = a

C10_StopConditions ==
    /\ (maxIter > 0) => iter <= maxIter
    /\ (pc = "assign" /\ iter >= 1) =>
          /\ changed
          /\ (maxIter > 0) => iter < maxIter
    /\ (pc = "done") =>
          \/ ~changed
          \/ ~moved
          \/ (maxIter > 0 /\ iter = maxIter)

\* A run stopped by the cap after its second iteration while assignments
\* were still changing: some row is not at its nearest centroid.
C10_Witness ==
    /\ pc = "done"
    /\ maxIter >= 2
    /\ iter = maxIter
    /\ changed
    /\ moved
    /\ ~AllNearest

\* The number of distinct rows of the dataset.
DistinctRows == Cardinality({rows[i] : i \in 1..Len(rows)})

\* C11: more clusters than distinct rows - whenever K exceeds the number of
\* distinct rows, every assignment the procedure computes (so also the one it
\* returns) leaves at least one cluster without a row, whatever the initial
\* centroids, those sampled from the rows included.
C11_EmptyCluster ==
    (labels # <<>> /\ K > DistinctRows) =>
        \E k \in 0..(K - 1) : Members(labels, k) = {}

\* A finished run with centroids sampled from the rows, two equal rows among
\* three and K = 3: both distinct rows have a cluster and one cluster is empty.
C11_Witness ==
    /\ pc = "done"
    /\ K = 3
    /\ Len(rows) = 3
    /\ DistinctRows = 2
    /\ \A k \in 0..(K - 1) : \E i \in 1..Len(rows) : init[k] = Point(rows[i])
    /\ Cardinality({labels[i] : i \in 1..Len(rows)}) = 2

\* The objective after the last update step.
LastObjective == objs[Len(objs)]

\* C12: sensitivity to initialisation - on the four-row scenario with K = 2,
\* two different rows with the same first coordinate as initial centroids
\* converge to clusters {0,2},{1,3} with objective 100, while every other
\* pair of rows converges to clusters {0,1},{2,3} with objective 1: two
\* initialisations drawn from the rows end in different assignments with
\* different objective values.
C12_InitSensitivity ==
    ScenarioConverged =>
        IF SameSideInit
        THEN /\ ScenarioSplitResult
             /\ LastObjective = Rat(100, 1)
        ELSE /\ ScenarioResult
             /\ LastObjective = Rat(1, 1)

\* The scenario converged from rows 0 and 1 to the worse of the two results.
C12_Witness ==
    /\ ScenarioConverged
    /\ init[0] = Point(rows[1])
    /\ init[1] = Point(rows[2])
    /\ labels[1] # labels[2]
    /\ RatLess(Rat(1, 1), LastObjective)

\* The feature-scaling scenario, as given or min-max scaled, run to
\* convergence with K = 2.
RawConverged ==
    /\ rows = ScaleRows
    /\ K = 2
    /\ pc = "done"
    /\ Converged(changed, moved)

ScaledConverged ==
    /\ rows = ScaledRows
    /\ K = 2
    /\ pc = "done"
    /\ Converged(changed, moved)

\* Rows 0,1 in one cluster and rows 2,3 in the other.
PairsResult ==
    /\ labels[1] = labels[2]
    /\ labels[3] = labels[4]
    /\ labels[1] # labels[3]

\* The clusters are the two sides of a threshold on coordinate d.
GroupedByCoord(d) ==
    \E t \in ColMin(rows, d)..(ColMax(rows, d) - 1) :
        \A i, j \in 1..Len(rows) :
            (labels[i] = labels[j]) <=> ((rows[i][d] <= t) <=> (rows[j][d] <= t))

\* C13 as stated: without normalisation the rows are grouped by the second
\* coordinate, and after normalisation they are grouped by the first
\* coordinate instead of the second.
C13_Original ==
    /\ RawConverged => GroupedByCoord(2)
    /\ ScaledConverged => (GroupedByCoord(1) /\ ~GroupedByCoord(2))

\* C13 amended: rows (1,1000),(2,1000),(10,1),(11,1) with K = 2 converge to
\* clusters {0,1},{2,3} both as given and after min-max scaling of every
\* feature; the two coordinates split the rows the same way, so the grouping
\* found is a grouping by the first and by the second coordinate in both
\* cases and normalisation does not change it.
C13_ScaleScenario ==
    (RawConverged \/ ScaledConverged) =>
        /\ PairsResult
        /\ GroupedByCoord(1)
        /\ GroupedByCoord(2)

\* The min-max scaled scenario, started from rows 0 and 1, took more than
\* one iteration to converge to clusters {0,1},{2,3}.
C13_Witness ==
    /\ ScaledConverged
    /\ rows = <<<<0, 10>>, <<1, 10>>, <<9, 0>>, <<10, 0>>>>
    /\ init[0] = Point(rows[1])
    /\ init[1] = Point(rows[2])
    /\ iter >= 2
    /\ PairsResult

-----------------------------------------------------------------------------
\* The notebook's code cells.  While one of them runs, the k-means variables
\* are idle.

KMeansIdle ==
    /\ rows = <<>>
    /\ K = 0
    /\ init = <<>>
    /\ maxIter = 0
    /\ cents = <<>>
    /\ labels = <<>>
    /\ changed = FALSE
    /\ moved = FALSE
    /\ iter = 0
    /\ objs = <<>>
    /\ pc = "idle"

kmeansVars == <<rows, K, init, maxIter, cents, labels, changed, moved, iter, objs, pc>>

-----------------------------------------------------------------------------
\* Spark ML pipelines.  A stage reads its input columns from the dataframe
\* it is handed and adds its output column; KMeans reads the column named
\* features and adds the column named prediction.

\* The columns of data, the dataframe read from Articles.csv.
DataColumns == {"CleanedArticle", "NewsType"}

Stage(name, inputCols, outputCol) ==
    [name |-> name, inputCols |-> inputCols, outputCol |-> outputCol]

KMeansStage == Stage("kmeans", {"features"}, "prediction")

\* Mutant of Pipeline1: the first two stages are listed in the other order.
Pipeline1RemoverFirst ==
    LET tokenizer == Stage("tokenizer", {"CleanedArticle"}, "words")
        remover == Stage("remover", {tokenizer.outputCol}, "filtered")
        hashingTF == Stage("hashingTF", {remover.outputCol}, "features")
    IN  <<remover, tokenizer, hashingTF, KMeansStage>>

\* Pipeline(stages=[tokenizer, remover, hashingTF, kmeans])
Pipeline1 ==
    LET tokenizer == Stage("tokenizer", {"CleanedArticle"}, "words")
        remover == Stage("remover", {tokenizer.outputCol}, "filtered")
        hashingTF == Stage("hashingTF", {remover.outputCol}, "features")
    IN  <<tokenizer, remover, hashingTF, KMeansStage>>

\* Pipeline(stages=[tokenizer, remover, ngram, hashingTF, kmeans])
Pipeline2 ==
    LET tokenizer == Stage("tokenizer", {"text"}, "words")
        remover == Stage("remover", {tokenizer.outputCol}, "filtered")
        ngram == Stage("ngram", {remover.outputCol}, "ngram")
        hashingTF == Stage("hashingTF", {ngram.outputCol}, "bigrams")
    IN  <<tokenizer, remover, ngram, hashingTF, KMeansStage>>

\* Pipeline(stages=[tokenizer, remover, ngram, hashingTF1, hashingTF2,
\* assembler, kmeans])
Pipeline3 ==
    LET tokenizer == Stage("tokenizer", {"text"}, "words")
        remover == Stage("remover", {tokenizer.outputCol}, "filtered")
        ngram == Stage("ngram", {remover.outputCol}, "ngram")
        hashingTF1 == Stage("hashingTF1", {remover.outputCol}, "unigrams")
        hashingTF2 == Stage("hashingTF2", {ngram.outputCol}, "bigrams")
        assembler == Stage("assembler", {"unigrams", "bigrams"}, "features")
    IN  <<tokenizer, remover, ngram, hashingTF1, hashingTF2, assembler, KMeansStage>>

Pipelines == <<Pipeline1, Pipeline2, Pipeline3>>

\* The columns each cell selects from the transformed dataframe.
Selected ==
    <<{"NewsType", "CleanedArticle", "prediction"},
      {"id", "text", "prediction"},
      {"id", "text", "prediction"}>>

\* One entry of the run log: the pass ("fit" or "transform"), the stage, the
\* columns it read, the columns the dataframe had when it started and the
\* column it produces.
Ran(pass, stage, cols) ==
    [pass |-> pass, name |-> stage.name, read |-> stage.inputCols, had |-> cols,
     wrote |-> stage.outputCol]

PipelineInit(p) ==
    [cell |-> "pipeline", which |-> p, phase |-> "fit", idx |-> 1,
     cols |-> DataColumns, ran |-> <<>>]

\* model = pipeline.fit(data): the stages run in list order on data, each on
\* the dataframe its predecessor returned; a stage whose input column is
\* missing raises.  The last stage, the KMeans estimator, is fitted only.
FitStage ==
    /\ nb.cell = "pipeline"
    /\ nb.phase = "fit"
    /\ LET stages == Pipelines[nb.which]
           stage == stages[nb.idx]
       IN  IF stage.inputCols \subseteq nb.cols
           THEN nb' = IF nb.idx < Len(stages)
                      THEN [nb EXCEPT !.idx = nb.idx + 1,
                                      !.cols = nb.cols \cup {stage.outputCol},
                                      !.ran = Append(nb.ran, Ran("fit", stage, nb.cols))]
                      ELSE [nb EXCEPT !.phase = "transform",
                                      !.idx = 1,
                                      !.cols = DataColumns,
                                      !.ran = Append(nb.ran, Ran("fit", stage, nb.cols))]
           ELSE nb' = [nb EXCEPT !.phase = "error"]
    /\ UNCHANGED kmeansVars

\* prediction = model.transform(data): the fitted stages run in list order
\* on data again.
TransformStage ==
    /\ nb.cell = "pipeline"
    /\ nb.phase = "transform"
    /\ LET stages == Pipelines[nb.which]
           stage == stages[nb.idx]
       IN  IF stage.inputCols \subseteq nb.cols
           THEN nb' = [nb EXCEPT !.phase = IF nb.idx < Len(stages)
                                           THEN "transform" ELSE "select",
                                 !.idx = nb.idx + 1,
                                 !.cols = nb.cols \cup {stage.outputCol},
                                 !.ran = Append(nb.ran, Ran("transform", stage, nb.cols))]
           ELSE nb' = [nb EXCEPT !.phase = "error"]
    /\ UNCHANGED kmeansVars

\* selected = prediction.select(...): every selected column must exist.
Select ==
    /\ nb.cell = "pipeline"
    /\ nb.phase = "select"
    /\ nb' = [nb EXCEPT !.phase = IF Selected[nb.which] \subseteq nb.cols
                                  THEN "done" ELSE "error"]
    /\ UNCHANGED kmeansVars

-----------------------------------------------------------------------------
\* From Python to Spark: the functional primitives.

\* numbers = [1,2,3,4,5]
Numbers == <<1, 2, 3, 4, 5>>

NumberVals == {Numbers[i] : i \in 1..Len(Numbers)}

\* Lists of at most MaxLen elements of S.
Lists(S) == UNION {[1..n -> S] : n \in 0..MaxLen}

\* The lists a cell is run on: the notebook's own and every short list of
\* its numbers.
NumberLists == Lists(NumberVals) \cup {Numbers}

\* A function handed to a primitive is the table of its values on the
\* elements it can meet.  Arbitrary functions f and predicates on the numbers:
Functions == [NumberVals -> 0..MaxVal]
Predicates == [NumberVals -> BOOLEAN]

\* map(f, list): "Apply f element-wise to list", front to back.
RECURSIVE map(_, _)
map(f, list) ==
    IF list = <<>> THEN <<>> ELSE <<f[Head(list)]>> \o map(f, Tail(list))

\* A filter that also drops the first element it would keep.
filter_rest(f, list) ==
    LET kept == SelectSeq(list, LAMBDA x : f[x])
    IN  IF kept = <<>> THEN <<>> ELSE Tail(kept)

\* filter(f, list): keep the elements f holds of, front to back.
RECURSIVE filter(_, _)
filter(f, list) ==
    IF list = <<>> THEN <<>>
    ELSE (IF f[Head(list)] THEN <<Head(list)>> ELSE <<>>) \o filter(f, Tail(list))

\* Mutant of square: the number is doubled.
double == [x \in NumberVals |-> x + x]

\* def square(x): return x*x
square == [x \in NumberVals |-> x * x]

\* Mutant of under_4: the comparison is not strict.
up_to_4 == [x \in NumberVals |-> x <= 4]

\* lambda x: x < 4
under_4 == [x \in NumberVals |-> x < 4]

-----------------------------------------------------------------------------
\* The squares cells: simple_squares, python_squares, python_squares_lambda,
\* then map with an arbitrary f.

SquaresInit(ns) ==
    [cell |-> "squares", numbers |-> ns, pc |-> "simple_squares", pos |-> 0,
     squares |-> <<>>, by_map |-> <<>>, by_lambda |-> <<>>, f |-> <<>>, mapped |-> <<>>]

\* for number in numbers: squares.append(number*number)
simple_squares ==
    /\ nb.cell = "squares"
    /\ nb.pc = "simple_squares"
    /\ nb' = IF nb.pos < Len(nb.numbers)
             THEN LET number == nb.numbers[nb.pos + 1]
                  IN  [nb EXCEPT !.pos = nb.pos + 1,
                                 !.squares = Append(nb.squares, number * number)]
             ELSE [nb EXCEPT !.pc = "python_squares"]
    /\ UNCHANGED kmeansVars

\* squares = map(square, numbers)
python_squares ==
    /\ nb.cell = "squares"
    /\ nb.pc = "python_squares"
    /\ nb' = [nb EXCEPT !.by_map = map(square, nb.numbers),
                        !.pc = "python_squares_lambda"]
    /\ UNCHANGED kmeansVars

\* squares = map(lambda x: x*x, numbers)
python_squares_lambda ==
    /\ nb.cell = "squares"
    /\ nb.pc = "python_squares_lambda"
    /\ nb' = [nb EXCEPT !.by_lambda = map([x \in NumberVals |-> x * x], nb.numbers),
                        !.pc = "map"]
    /\ UNCHANGED kmeansVars

\* map(f, list) for an arbitrary f.
MapAny ==
    /\ nb.cell = "squares"
    /\ nb.pc = "map"
    /\ \E f \in Functions :
          nb' = [nb EXCEPT !.f = f,
                           !.mapped = map(f, nb.numbers),
                           !.pc = "done"]
    /\ UNCHANGED kmeansVars

-----------------------------------------------------------------------------
\* The filter cells: filter_squares, python_filter_squares_lambda, then
\* filter with an arbitrary predicate.

FilterInit(ns) ==
    [cell |-> "filter", numbers |-> ns, pc |-> "filter_squares", pos |-> 0,
     numbers_under_4 |-> <<>>, by_filter |-> <<>>, f |-> <<>>, filtered |-> <<>>,
     again |-> <<>>]

\* A loop that appends the square of each number below 4.
filter_squares_appending_squares ==
    /\ nb.cell = "filter"
    /\ nb.pc = "filter_squares"
    /\ nb' = IF nb.pos < Len(nb.numbers)
             THEN LET number == nb.numbers[nb.pos + 1]
                  IN  [nb EXCEPT !.pos = nb.pos + 1,
                                 !.numbers_under_4 =
                                     IF number < 4
                                     THEN Append(nb.numbers_under_4, number * number)
                                     ELSE nb.numbers_under_4]
             ELSE [nb EXCEPT !.pc = "python_filter_squares_lambda"]
    /\ UNCHANGED kmeansVars

\* for number in numbers: if number < 4: numbers_under_4.append(number)
filter_squares ==
    /\ nb.cell = "filter"
    /\ nb.pc = "filter_squares"
    /\ nb' = IF nb.pos < Len(nb.numbers)
             THEN LET number == nb.numbers[nb.pos + 1]
                  IN  [nb EXCEPT !.pos = nb.pos + 1,
                                 !.numbers_under_4 =
                                     IF number < 4
                                     THEN Append(nb.numbers_under_4, number)
                                     ELSE nb.numbers_under_4]
             ELSE [nb EXCEPT !.pc = "python_filter_squares_lambda"]
    /\ UNCHANGED kmeansVars

\* numbers_under_4 = filter(lambda x: x < 4, numbers)
python_filter_squares_lambda ==
    /\ nb.cell = "filter"
    /\ nb.pc = "python_filter_squares_lambda"
    /\ nb' = [nb EXCEPT !.by_filter = filter(under_4, nb.numbers),
                        !.pc = "filter"]
    /\ UNCHANGED kmeansVars

\* filter(f, list) for an arbitrary predicate f.
FilterAny ==
    /\ nb.cell = "filter"
    /\ nb.pc = "filter"
    /\ \E f \in Predicates :
          nb' = [nb EXCEPT !.f = f,
                           !.filtered = filter(f, nb.numbers),
                           !.pc = "done"]
    /\ UNCHANGED kmeansVars

\* filter(f, filter(f, list)): the filter applied to its own result.
FilterAgain ==
    /\ nb.cell = "filter"
    /\ nb.pc = "done"
    /\ nb' = [nb EXCEPT !.again = filter(nb.f, nb.filtered),
                        !.pc = "again"]
    /\ UNCHANGED kmeansVars

-----------------------------------------------------------------------------
\* The last exercise: squares of the numbers under 4, as a loop, with map and
\* filter, and with an RDD.

\* The ways of cutting a list into n contiguous slices (some may be empty).
Splits(list, n) ==
    {[i \in 1..n |-> SubSeq(list, c[i - 1] + 1, c[i])] :
        c \in {b \in [0..n -> 0..Len(list)] :
                 /\ b[0] = 0
                 /\ b[n] = Len(list)
                 /\ \A i \in 1..n : b[i - 1] <= b[i]}}

\* Mutant of Flatten: the lists are concatenated last to first.
FlattenReversed(lists) ==
    LET RECURSIVE Rev(_)
        Rev(n) == IF n > Len(lists) THEN <<>> ELSE Rev(n + 1) \o lists[n]
    IN  Rev(1)

\* The concatenation of a list of lists, in order.
RECURSIVE Flatten(_)
Flatten(lists) ==
    IF lists = <<>> THEN <<>> ELSE Head(lists) \o Flatten(Tail(lists))

ExerciseInit(ns) ==
    [cell |-> "exercise", numbers |-> ns, pc |-> "loop", pos |-> 0,
     squares |-> <<>>, by_map_filter |-> <<>>, slices |-> <<>>, results |-> <<>>,
     order |-> <<>>, collected |-> <<>>]

\* for number in numbers: if number < 4: squares.append(number*number)
ExerciseLoop ==
    /\ nb.cell = "exercise"
    /\ nb.pc = "loop"
    /\ nb' = IF nb.pos < Len(nb.numbers)
             THEN LET number == nb.numbers[nb.pos + 1]
                  IN  [nb EXCEPT !.pos = nb.pos + 1,
                                 !.squares = IF number < 4
                                             THEN Append(nb.squares, number * number)
                                             ELSE nb.squares]
             ELSE [nb EXCEPT !.pc = "map_filter"]
    /\ UNCHANGED kmeansVars

\* squares = map(lambda x: x*x, filter(lambda x: x < 4, numbers))
ExerciseMapFilter ==
    /\ nb.cell = "exercise"
    /\ nb.pc = "map_filter"
    /\ nb' = [nb EXCEPT !.by_map_filter = map(square, filter(under_4, nb.numbers)),
                        !.pc = "parallelize"]
    /\ UNCHANGED kmeansVars

\* numbers_rdd = sc.parallelize(numbers): the list is cut into partitions.
Parallelize ==
    /\ nb.cell = "exercise"
    /\ nb.pc = "parallelize"
    /\ \E n \in 1..MaxSlices : \E parts \in Splits(nb.numbers, n) :
          nb' = [nb EXCEPT !.slices = parts,
                           !.results = [i \in 1..n |-> <<>>],
                           !.pc = "tasks"]
    /\ UNCHANGED kmeansVars

\* numbers_rdd.filter(lambda x: x < 4).map(lambda x: x*x): one task per
\* partition, the tasks finishing in any order.
RunTask ==
    /\ nb.cell = "exercise"
    /\ nb.pc = "tasks"
    /\ \E p \in 1..Len(nb.slices) :
          /\ \A i \in 1..Len(nb.order) : nb.order[i] # p
          /\ nb' = [nb EXCEPT !.results[p] = map(square, filter(under_4, nb.slices[p])),
                              !.order = Append(nb.order, p)]
    /\ UNCHANGED kmeansVars

\* squares_rdd.collect(): the partitions' results in partition order.
Collect ==
    /\ nb.cell = "exercise"
    /\ nb.pc = "tasks"
    /\ Len(nb.order) = Len(nb.slices)
    /\ nb' = [nb EXCEPT !.collected = Flatten(nb.results), !.pc = "done"]
    /\ UNCHANGED kmeansVars

-----------------------------------------------------------------------------
\* reduce(f, list[, initial]).

\* f is lambda x,y: x+y or, not commutative, lambda x,y: x-y.
BinaryFunctions == {"add", "sub"}

Apply2(f, x, y) == IF f = "add" THEN x + y ELSE x - y

\* Mutant of Recursion: f is handed the next value first.
RecursionSwapped(f, list, initial, i) ==
    LET RECURSIVE a(_)
        a(j) == IF j = -1 THEN initial ELSE Apply2(f, list[j + 1], a(j - 1))
    IN  a(i)

\* a_{-1} = initial, a_i = f(a_{i-1}, list_i), list_i being the element at
\* position i counted from 0.
RECURSIVE Recursion(_, _, _, _)
Recursion(f, list, initial, i) ==
    IF i = -1 THEN initial
    ELSE Apply2(f, Recursion(f, list, initial, i - 1), list[i + 1])

\* "If initial is omitted, just start with a_0 = list_0."
RECURSIVE RecursionNoInitial(_, _, _)
RecursionNoInitial(f, list, i) ==
    IF i = 0 THEN list[1]
    ELSE Apply2(f, RecursionNoInitial(f, list, i - 1), list[i + 1])

\* The lists reduce is run on: the notebook's [1,2,3,4] and every short list.
ReduceLists == Lists(0..MaxVal) \cup {<<1, 2, 3, 4>>}

ReduceInit(f, list, has_initial, initial) ==
    [cell |-> "reduce", f |-> f, list |-> list, has_initial |-> has_initial,
     initial |-> initial, pc |-> "start", pos |-> 0, acc |-> 0]

\* The accumulator starts at initial, or at the first element when initial
\* is omitted; reduce of an empty list without initial raises.
ReduceStart ==
    /\ nb.cell = "reduce"
    /\ nb.pc = "start"
    /\ nb' = IF nb.has_initial
             THEN [nb EXCEPT !.acc = nb.initial, !.pc = "fold"]
             ELSE IF nb.list = <<>>
                  THEN [nb EXCEPT !.pc = "error"]
                  ELSE [nb EXCEPT !.acc = nb.list[1], !.pos = 1, !.pc = "fold"]
    /\ UNCHANGED kmeansVars

\* The fold: f applied to the accumulator and the next value in the list.
ReduceStep ==
    /\ nb.cell = "reduce"
    /\ nb.pc = "fold"
    /\ nb' = IF nb.pos < Len(nb.list)
             THEN [nb EXCEPT !.acc = Apply2(nb.f, nb.acc, nb.list[nb.pos + 1]),
                             !.pos = nb.pos + 1]
             ELSE [nb EXCEPT !.pc = "done"]
    /\ UNCHANGED kmeansVars

-----------------------------------------------------------------------------
\* flatMap(f, list) and the comprehension written next to it.

\* Functions that eat an element and spit out a list.
ListFunctions == {"twice", "wrap", "drop"}

ApplyList(f, x) ==
    IF f = "twice" THEN <<x, x>> ELSE IF f = "wrap" THEN <<x>> ELSE <<>>

\* The elements of a list, and the table of f on a set of elements.
Elements(list) == {list[i] : i \in 1..Len(list)}
Table(f, S) == [x \in S |-> ApplyList(f, x)]

\* flatMap "first applies f element-wise to the elements of list and then
\* flattens or concatenates the resulting lists".
flatMap(f, list) == Flatten(map(f, list))

\* [ f(x) for y in list for x in y ]: y runs over the elements of list and x
\* over the elements of y.
RECURSIVE Comprehension(_, _)
Comprehension(f, list) ==
    IF list = <<>> THEN <<>> ELSE map(f, Head(list)) \o Comprehension(f, Tail(list))

\* Lists of at most MaxNest lists of at most MaxNest elements.
NestedLists ==
    LET inner == UNION {[1..n -> 0..1] : n \in 0..MaxNest}
    IN  UNION {[1..n -> inner] : n \in 0..MaxNest}

FlatMapInit(f, list, nested) ==
    [cell |-> "flatMap", f |-> f, list |-> list, nested |-> nested,
     pc |-> "flatMap", flat |-> <<>>, comp |-> <<>>]

FlatMapCall ==
    /\ nb.cell = "flatMap"
    /\ nb.pc = "flatMap"
    /\ nb' = [nb EXCEPT !.flat = flatMap(Table(nb.f, Elements(nb.list)), nb.list),
                        !.pc = "comprehension"]
    /\ UNCHANGED kmeansVars

\* The comprehension raises when an element of list is not itself a list
\* (for x in y needs an iterable y).
ComprehensionCall ==
    /\ nb.cell = "flatMap"
    /\ nb.pc = "comprehension"
    /\ nb' = IF nb.nested \/ nb.list = <<>>
             THEN [nb EXCEPT !.comp = Comprehension(
                                          Table(nb.f, UNION {Elements(y) : y \in Elements(nb.list)}),
                                          nb.list),
                             !.pc = "done"]
             ELSE [nb EXCEPT !.pc = "error"]
    /\ UNCHANGED kmeansVars

-----------------------------------------------------------------------------
\* Getting started: the classroom setup.  On the VM a shell session exports
\* the PYSPARK_* variables and launches pyspark; on the laptop an ssh tunnel
\* forwards a local port to the VM, and the browser opens the notebook's URL.

EnvVars == {"PYSPARK_PYTHON", "PYSPARK_DRIVER_PYTHON", "PYSPARK_DRIVER_PYTHON_OPTS"}

\* PYSPARK_DRIVER_PYTHON_OPTS="notebook --no-browser --port=8889 --ip=127.0.0.1"
NotebookIp == "127.0.0.1"
NotebookPort == 8889

\* ssh -N -f -L localhost:8888:localhost:8889 student@<unique ip>
TunnelLocalPort == 8888
TunnelRemoteHost == "localhost"

\* Mutant of TunnelRemotePort: the tunnel forwards to the port number it
\* listens on.
SamePortBothEnds == TunnelLocalPort

TunnelRemotePort == 8889

\* "The notebook can now be accessed from your web-browser at
\* http://localhost:8888"
UrlPort == 8888

\* localhost is the loopback address.
Resolve(host) == IF host = "localhost" THEN "127.0.0.1" ELSE host

\* The guide's steps, in its order.
GuideSteps ==
    <<"ssh", "export PYSPARK_PYTHON", "export PYSPARK_DRIVER_PYTHON",
      "export PYSPARK_DRIVER_PYTHON_OPTS", "pyspark", "tunnel">>

SetupInit ==
    [cell |-> "setup", shell |-> FALSE, env |-> {}, server |-> "none",
     listen |-> <<>>, tunnel |-> FALSE, steps |-> <<>>, page |-> "none"]

\* ssh student@<unique ip>
Ssh ==
    /\ nb.cell = "setup"
    /\ ~nb.shell
    /\ nb' = [nb EXCEPT !.shell = TRUE, !.steps = Append(nb.steps, "ssh"),
                        !.page = "none"]
    /\ UNCHANGED kmeansVars

\* export PYSPARK_...=...
Export ==
    /\ nb.cell = "setup"
    /\ nb.shell
    /\ \E v \in EnvVars \ nb.env :
          nb' = [nb EXCEPT !.env = nb.env \cup {v},
                           !.steps = Append(nb.steps, "export " \o v),
                           !.page = "none"]
    /\ UNCHANGED kmeansVars

\* pyspark [options]: with the driver variables exported it starts Jupyter's
\* notebook server on the configured address and port, without a browser;
\* without them it starts something else that serves no notebook.
Pyspark ==
    /\ nb.cell = "setup"
    /\ nb.shell
    /\ nb.server = "none"
    /\ nb' = IF {"PYSPARK_DRIVER_PYTHON", "PYSPARK_DRIVER_PYTHON_OPTS"} \subseteq nb.env
             THEN [nb EXCEPT !.server = "notebook",
                             !.listen = <<NotebookIp, NotebookPort>>,
                             !.steps = Append(nb.steps, "pyspark"),
                             !.page = "none"]
             ELSE [nb EXCEPT !.server = "shell",
                             !.steps = Append(nb.steps, "pyspark"),
                             !.page = "none"]
    /\ UNCHANGED kmeansVars

\* ssh -N -f -L ...: the tunnel runs in the background from then on.
Tunnel ==
    /\ nb.cell = "setup"
    /\ ~nb.tunnel
    /\ nb' = [nb EXCEPT !.tunnel = TRUE, !.steps = Append(nb.steps, "tunnel"),
                        !.page = "none"]
    /\ UNCHANGED kmeansVars

\* The browser opens http://localhost:8888: the connection is accepted by
\* the tunnel's local end and forwarded to its remote end, where the
\* notebook server must be listening.
Browse ==
    /\ nb.cell = "setup"
    /\ nb' = [nb EXCEPT !.page =
                 IF /\ nb.tunnel
                    /\ UrlPort = TunnelLocalPort
                    /\ nb.server = "notebook"
                    /\ nb.listen = <<Resolve(TunnelRemoteHost), TunnelRemotePort>>
                 THEN "notebook" ELSE "refused"]
    /\ UNCHANGED kmeansVars

-----------------------------------------------------------------------------
\* ---------------------------------------------------------------------
\* Delimited text files and the data frames read from them.
\* ---------------------------------------------------------------------

\* A line of a text file is a sequence of tokens: a delimiter character, a
\* number or a word.
Sep(c) == [t |-> "sep", c |-> c, n |-> 0]
Num(n) == [t |-> "num", c |-> "", n |-> n]
Word(w) == [t |-> "word", c |-> w, n |-> 0]

\* The fields of a line: the runs of tokens between occurrences of the
\* delimiter sep.  Any other delimiter character is part of a field.
RECURSIVE Split(_, _)
Split(line, sep) ==
    IF line = <<>>
    THEN << <<>> >>
    ELSE LET tok == Head(line)
             rest == Split(Tail(line), sep)
         IN  IF tok.t = "sep" /\ tok.c = sep
             THEN << <<>> >> \o rest
             ELSE << <<tok>> \o Head(rest) >> \o Tail(rest)

\* A cell of a frame: a number, the missing value NaN, or, for a field that
\* is not one number, the text of the field.
Float(n) == [nan |-> FALSE, v |-> n]
NaN == [nan |-> TRUE, v |-> 0]
Value(field) ==
    IF field = <<>>
    THEN NaN
    ELSE IF Len(field) = 1 /\ field[1].t = "num"
         THEN Float(field[1].n)
         ELSE field

\* The name a header field gives a column.
Name(field) == field[1].c

\* The row a line gives under the column names cols; a line with fewer
\* fields than columns is filled with NaN.
RowOf(cols, fields) ==
    [c \in {cols[i] : i \in 1..Len(cols)} |->
        LET i == CHOOSE j \in 1..Len(cols) : cols[j] = c
        IN  IF i <= Len(fields) THEN Value(fields[i]) ELSE NaN]

\* A reader that takes the first line as the header whether or not names
\* are supplied.
ReadHeaderAlways(lines, sep, names) ==
    LET data == Tail(lines)
    IN  [columns |-> names,
         index |-> [i \in 1..Len(data) |-> i - 1],
         rows |-> [i \in 1..Len(data) |-> RowOf(names, Split(data[i], sep))]]

\* pd.read_csv(path, sep=sep, names=names): with names supplied no line is a
\* header and every line is a data row; without names the first line is the
\* header.  Rows are labelled 0, 1, 2, ... in file order.
read_csv(lines, sep, names) ==
    LET header == Split(lines[1], sep)
        cols == IF names # <<>>
                THEN names
                ELSE [i \in 1..Len(header) |-> Name(header[i])]
        data == IF names # <<>> THEN lines ELSE Tail(lines)
    IN  [columns |-> cols,
         index |-> [i \in 1..Len(data) |-> i - 1],
         rows |-> [i \in 1..Len(data) |-> RowOf(cols, Split(data[i], sep))]]

\* spark.read.options(header=header, delimiter=delimiter).csv(path): with
\* header=True the first line names the columns, otherwise they are named
\* _c0, _c1, ... by position and the first line is data.
SparkColumn(i) == <<"_c", i - 1>>
SparkCsv(lines, header, delimiter) ==
    LET first == Split(lines[1], delimiter)
        cols == IF header
                THEN [i \in 1..Len(first) |-> Name(first[i])]
                ELSE [i \in 1..Len(first) |-> SparkColumn(i)]
        data == IF header THEN Tail(lines) ELSE lines
    IN  [columns |-> cols,
         rows |-> [i \in 1..Len(data) |-> RowOf(cols, Split(data[i], delimiter))]]

\* ./data/Articles.csv: a header line naming CleanedArticle and NewsType,
\* then one line per article; the text of an article may hold commas.
ArticlesHeader == <<Word("CleanedArticle"), Sep("|"), Word("NewsType")>>
ArticleLines ==
    { <<Word("goal"), Sep("|"), Word("sports")>>,
      <<Word("oil"), Sep(","), Word("prices"), Sep("|"), Word("business")>> }
ArticlesFiles == {<<ArticlesHeader>> \o data : data \in Lists(ArticleLines)}

\* The articles cells: pandas reads the file into data_df, Spark into data.
ArticlesInit(lines) ==
    [cell |-> "articles", file |-> lines, pc |-> "read_csv",
     data_df |-> <<>>, data |-> <<>>]

\* data_df = pd.read_csv("./data/Articles.csv", sep="|")
ReadArticlesPandas ==
    /\ nb.cell = "articles"
    /\ nb.pc = "read_csv"
    /\ nb' = [nb EXCEPT !.data_df = <<read_csv(nb.file, "|", <<>>)>>,
                        !.pc = "spark.read"]
    /\ UNCHANGED kmeansVars

\* data = spark.read.options(header=True, inferSchema=True,
\*                           delimiter="|").csv(prepath + "/data/Articles.csv")
ReadArticlesSpark ==
    /\ nb.cell = "articles"
    /\ nb.pc = "spark.read"
    /\ nb' = [nb EXCEPT !.data = <<SparkCsv(nb.file, TRUE, "|")>>,
                        !.pc = "done"]
    /\ UNCHANGED kmeansVars

\* ./data/fha_by_tract.csv: nine comma-separated numbers per line, no header
\* line.  A missing number is an empty field.
names ==
    <<"State_Code", "County_Code", "Census_Tract_Number", "NUM_ALL", "NUM_FHA",
      "PCT_NUM_FHA", "AMT_ALL", "AMT_FHA", "PCT_AMT_FHA">>

RECURSIVE Join(_)
Join(fields) ==
    IF Len(fields) <= 1
    THEN IF fields = <<>> THEN <<>> ELSE Head(fields)
    ELSE Head(fields) \o <<Sep(",")>> \o Join(Tail(fields))

Missing == <<>>
N(n) == <<Num(n)>>

\* The lines behind the nine rows the notebook prints, census tract numbers
\* in hundredths; the seventh line is printed nowhere and is one whose
\* county code is missing or at most 75.
FhaLine(state, county, tract, numAll, numFha, amtAll, amtFha) ==
    Join(<<state, county, tract, N(numAll), N(numFha), N(100),
           N(amtAll), N(amtFha), N(100)>>)
HiddenLines ==
    { FhaLine(N(12), N(75), Missing, 1, 1, 50, 50),
      FhaLine(N(12), Missing, N(100), 1, 1, 50, 50) }
FhaHead(hidden) ==
    << FhaLine(N(8), N(75), Missing, 1, 1, 258, 258),
       FhaLine(N(28), N(49), N(10301), 1, 1, 71, 71),
       FhaLine(N(40), N(3), Missing, 1, 1, 215, 215),
       FhaLine(N(39), N(113), N(60300), 3, 3, 206, 206),
       FhaLine(N(12), N(105), N(12404), 2, 2, 303, 303),
       FhaLine(N(12), N(86), N(980800), 1, 1, 188, 188),
       hidden,
       FhaLine(N(12), N(103), N(20700), 2, 2, 100, 100),
       FhaLine(N(36), N(119), N(3000), 1, 1, 354, 354) >>

\* Short files around the threshold: county codes below, at and above 75 and
\* missing, state codes present and missing.
ShortLines ==
    { FhaLine(state, county, Missing, 1, 1, 50, 50) :
        state \in {N(8), Missing}, county \in {N(75), N(76), Missing} }
FhaFiles == {FhaHead(hidden) : hidden \in HiddenLines}
            \cup (Lists(ShortLines) \ {<<>>})

\* lambda x: x+1 on a float: NaN + 1 is NaN.
minus_one(x) == IF x.nan THEN x ELSE Float(x.v - 1)
plus_one(x) == IF x.nan THEN x ELSE Float(x.v + 1)

\* series > n, element by element: a comparison with NaN is False.
AtLeast(x, n) == ~x.nan /\ x.v >= n
GreaterThan(x, n) == ~x.nan /\ x.v > n
CountyThreshold == 75

\* An assignment that replaces the frame's first column instead.
SetFirstColumn(frame, name, values) ==
    [frame EXCEPT !.rows = [i \in 1..Len(frame.rows) |->
                               (frame.columns[1] :> values[i]) @@ frame.rows[i]]]

\* frame[name] = values, in place: the column is appended if the frame has
\* none of that name and replaced otherwise; nothing else changes.
SetColumn(frame, name, values) ==
    [columns |-> IF \E i \in 1..Len(frame.columns) : frame.columns[i] = name
                 THEN frame.columns
                 ELSE Append(frame.columns, name),
     index |-> frame.index,
     rows |-> [i \in 1..Len(frame.rows) |-> (name :> values[i]) @@ frame.rows[i]]]

\* The positions where mask is True, in increasing order.
RECURSIVE Positions(_, _)
Positions(mask, i) ==
    IF i > Len(mask)
    THEN <<>>
    ELSE (IF mask[i] THEN <<i>> ELSE <<>>) \o Positions(mask, i + 1)

\* frame[mask]: a new frame of the rows where mask is True, with their index
\* labels and all columns.
BooleanIndex(frame, mask) ==
    LET keep == Positions(mask, 1)
    IN  [columns |-> frame.columns,
         index |-> [k \in 1..Len(keep) |-> frame.index[keep[k]]],
         rows |-> [k \in 1..Len(keep) |-> frame.rows[keep[k]]]]

\* The pandas cells.  heap holds the frame objects in order of creation and
\* created what each held when the library call returned it; df is the
\* object the name df is bound to (0 before the read); log lists the cells
\* run after the read; written is the set of files the cells have written.
MaxRuns == 3
PandasInit(lines) ==
    [cell |-> "pandas", file |-> lines, heap |-> <<>>, created |-> <<>>,
     df |-> 0, log |-> <<>>, written |-> {}]

\* df = pd.read_csv('./data/fha_by_tract.csv', names=names)
ReadFha ==
    /\ nb.cell = "pandas"
    /\ nb.df = 0
    /\ LET frame == read_csv(nb.file, ",", names)
       IN  nb' = [nb EXCEPT !.heap = <<frame>>, !.created = <<frame>>, !.df = 1]
    /\ UNCHANGED kmeansVars

\* df["State_Code2"] = df["State_Code"].apply(lambda x: x+1)
StateCode2Cell ==
    /\ nb.cell = "pandas"
    /\ nb.df # 0
    /\ Len(nb.log) < MaxRuns
    /\ LET frame == nb.heap[nb.df]
           applied == [i \in 1..Len(frame.rows) |->
                          plus_one(frame.rows[i]["State_Code"])]
       IN  nb' = [nb EXCEPT !.heap[nb.df] = SetColumn(frame, "State_Code2", applied),
                            !.log = Append(nb.log, "State_Code2")]
    /\ UNCHANGED kmeansVars

\* df = df[df['County_Code'] > 75]
FilterCell ==
    /\ nb.cell = "pandas"
    /\ nb.df # 0
    /\ Len(nb.log) < MaxRuns
    /\ \E i \in 1..Len(nb.log) : nb.log[i] = "State_Code2"
    /\ LET frame == nb.heap[nb.df]
           mask == [i \in 1..Len(frame.rows) |->
                       GreaterThan(frame.rows[i]["County_Code"], CountyThreshold)]
           new == BooleanIndex(frame, mask)
       IN  nb' = [nb EXCEPT !.heap = Append(nb.heap, new),
                            !.created = Append(nb.created, new),
                            !.df = Len(nb.heap) + 1,
                            !.log = Append(nb.log, "County_Code")]
    /\ UNCHANGED kmeansVars

\* ---------------------------------------------------------------------
\* Running a notebook's code cells in order
\* ---------------------------------------------------------------------

\* A statement of a cell: the line it is on, the global names it reads and
\* the names it binds.  A def binds the function's name and records the
\* global names its body reads when called; a call reads them then.  A
\* statement that raises binds nothing and ends its cell.
St(line, reads, binds) ==
    [line |-> line, reads |-> reads, binds |-> binds, free |-> {}, calls |-> {},
     raises |-> FALSE]
Def(line, name, free) ==
    [line |-> line, reads |-> {}, binds |-> {name}, free |-> free, calls |-> {},
     raises |-> FALSE]
Call(line, f) ==
    [line |-> line, reads |-> {f}, binds |-> {}, free |-> {}, calls |-> {f},
     raises |-> FALSE]
Raising(line, reads) ==
    [line |-> line, reads |-> reads, binds |-> {}, free |-> {}, calls |-> {},
     raises |-> TRUE]

\* The clustering notebook, cell by cell.
ClusteringCells ==
    << << St(54, {}, {"KMeans"}),
          St(55, {}, {"metrics"}),
          St(56, {}, {"datasets"}),
          St(59, {"datasets"}, {"dataset"}),
          St(60, {"dataset"}, {"X"}),
          St(61, {"KMeans", "X"}, {"k_means"}),
          St(62, {"k_means", "X"}, {"y"}),
          St(65, {"metrics", "X", "y"}, {}),
          St(68, {}, {"labels_true"}),
          St(69, {}, {"labels_pred"}),
          St(71, {"metrics", "labels_true", "labels_pred"}, {}),
          St(72, {"metrics", "labels_true", "labels_pred"}, {}) >>,
       << St(140, {}, {"cluster", "mixture", "datasets"}),
          St(141, {}, {"pd"}),
          St(144, {"datasets"}, {"diabetes"}),
          St(146, {}, {"columns"}),
          St(147, {"pd", "diabetes", "columns"}, {"X"}),
          St(148, {"pd", "diabetes"}, {"y"}),
          St(150, {"mixture", "X"}, {"gmm_clf"}),
          St(151, {"cluster", "X"}, {"kmeans_clf"}),
          St(154, {"pd", "metrics", "X", "gmm_clf", "kmeans_clf"}, {}) >>,
       << St(194, {}, {"Pipeline"}),
          St(195, {}, {"BisectingKMeans", "KMeans", "GaussianMixture"}),
          St(196, {}, {"HashingTF", "Tokenizer", "NGram", "IDF", "StopWordsRemover"}),
          St(197, {}, {"Row"}),
          St(200, {}, {"os"}),
          St(201, {"os"}, {"prepath"}) >>,
       << St(228, {}, {"pd"}),
          St(229, {"pd"}, {"data_df"}) >>,
       << St(294, {"data_df"}, {}) >>,
       << St(353, {"data_df"}, {}) >>,
       << St(362, {"spark", "prepath"}, {"data"}) >>,
       << St(382, {"data"}, {}) >>,
       << St(409, {"data"}, {}) >>,
       << St(500, {"Tokenizer"}, {"tokenizer"}),
          St(501, {"StopWordsRemover", "tokenizer"}, {"remover"}),
          St(502, {"HashingTF", "remover"}, {"hashingTF"}),
          St(506, {"KMeans"}, {"kmeans"}),
          St(507, {"Pipeline", "tokenizer", "remover", "hashingTF", "kmeans"},
                  {"pipeline"}),
          St(510, {"pipeline", "data"}, {"model"}),
          St(513, {"model", "data"}, {"prediction"}),
          St(514, {"prediction"}, {"selected"}) >>,
       << St(556, {"selected"}, {}) >>,
       << St(585, {"Tokenizer"}, {"tokenizer"}),
          St(586, {"StopWordsRemover", "tokenizer"}, {"remover"}),
          St(587, {"NGram", "remover"}, {"ngram"}),
          St(588, {"HashingTF", "ngram"}, {"hashingTF"}),
          St(591, {"KMeans"}, {"kmeans"}),
          St(592, {"Pipeline", "tokenizer", "remover", "ngram", "hashingTF", "kmeans"},
                  {"pipeline"}),
          Raising(595, {"pipeline", "data"}),
          St(598, {"model", "data"}, {"prediction"}),
          St(599, {"prediction"}, {"selected"}),
          St(600, {"selected"}, {}) >>,
       << St(618, {}, {"VectorAssembler"}) >>,
       << St(630, {"Tokenizer"}, {"tokenizer"}),
          St(631, {"StopWordsRemover", "tokenizer"}, {"remover"}),
          St(632, {"NGram", "remover"}, {"ngram"}),
          St(633, {"HashingTF", "remover"}, {"hashingTF1"}),
          St(634, {"HashingTF", "ngram"}, {"hashingTF2"}),
          St(635, {"VectorAssembler"}, {"assembler"}),
          St(638, {"KMeans"}, {"kmeans"}),
          St(639, {"Pipeline", "tokenizer", "remover", "ngram", "hashingTF1",
                   "hashingTF2", "assembler", "kmeans"}, {"pipeline"}),
          Raising(642, {"pipeline", "data"}),
          St(645, {"model", "data"}, {"prediction"}),
          St(646, {"prediction"}, {"selected"}),
          St(647, {"selected"}, {}) >> >>

\* The functional-primitives notebook, cell by cell.
PrimitivesCells ==
    << << Def(760, "add", {}),
          St(763, {}, {"add2"}) >>,
       << St(787, {"map"}, {"squares"}),
          St(788, {"squares"}, {}) >>,
       << St(808, {}, {"sys"}),
          Def(810, "simple_squares", {}) >>,
       << Call(834, "simple_squares") >>,
       << Def(865, "square", {}),
          Def(868, "python_squares", {"map", "square"}),
          Def(875, "python_squares_lambda", {"map"}) >>,
       << Call(898, "python_squares") >>,
       << Call(916, "python_squares_lambda") >>,
       << Def(945, "filter_squares", {}) >>,
       << Def(970, "python_filter_squares_lambda", {"filter"}) >>,
       << Call(991, "filter_squares") >>,
       << Call(1009, "python_filter_squares_lambda") >>,
       << St(1069, {}, {"pd"}) >>,
       << St(1183, {}, {"names"}),
          St(1184, {"pd", "names"}, {"df"}),
          St(1186, {"df"}, {}) >>,
       << St(1218, {"df"}, {}),
          St(1220, {"df"}, {}) >>,
       << St(1347, {"df"}, {"df"}),
          St(1349, {"df"}, {}) >>,
       << St(1377, {}, {"numbers"}),
          St(1378, {}, {"squares"}),
          St(1379, {"numbers", "squares"}, {"number"}),
          St(1382, {"squares"}, {}) >>,
       << St(1406, {}, {"numbers"}),
          St(1407, {"map", "filter", "numbers"}, {"squares"}),
          St(1408, {"squares"}, {}) >>,
       << St(1433, {"sc", "numbers"}, {"numbers_rdd"}),
          St(1434, {"numbers_rdd"}, {"squares_rdd"}),
          St(1435, {"squares_rdd"}, {}) >> >>

Notebooks == <<ClusteringCells, PrimitivesCells>>

\* The names Python 2 itself provides that the cells read.
Builtins == {"map", "filter"}

\* A kernel that is not started by pyspark provides no names.
PlainKernel == {}

\* "We do not need to create the SparkSession/SparkContext in the notebook":
\* the pyspark session provides spark and sc.
SessionNames == {"spark", "sc"}

\* A fresh kernel about to run the first statement of the first cell of
\* notebook book.  bound holds the names bound so far, free the pairs
\* <<function, global name its body reads>>, errors the pairs
\* <<line, name>> of the reads of an unbound name.
RunInit(book) ==
    [cell |-> "run", book |-> book, at |-> 1, stmt |-> 1,
     bound |-> Builtins \cup SessionNames, free |-> {}, errors |-> {},
     resolved |-> {}]

\* The next statement of the notebook, cells in order, statements in order;
\* a NameError or another exception ends the cell.
RunStatement ==
    /\ nb.cell = "run"
    /\ nb.at <= Len(Notebooks[nb.book])
    /\ LET c == Notebooks[nb.book][nb.at]
           st == c[nb.stmt]
           needed == st.reads \cup {p[2] : p \in {q \in nb.free : q[1] \in st.calls}}
           missing == needed \ nb.bound
           ends == missing # {} \/ st.raises \/ nb.stmt = Len(c)
       IN  nb' = [nb EXCEPT
                    !.bound = IF missing = {} /\ ~st.raises
                              THEN nb.bound \cup st.binds
                              ELSE nb.bound,
                    !.free = IF missing = {}
                             THEN {q \in nb.free : q[1] \notin st.binds}
                                  \cup {<<f, g>> : f \in st.binds, g \in st.free}
                             ELSE nb.free,
                    !.errors = nb.errors \cup {<<st.line, n>> : n \in missing},
                    !.resolved = nb.resolved \cup (needed \cap nb.bound),
                    !.at = IF ends THEN nb.at + 1 ELSE nb.at,
                    !.stmt = IF ends THEN 1 ELSE nb.stmt + 1]
    /\ UNCHANGED kmeansVars

\* A notebook session runs one cell on one input.

NbInit ==
    /\ KMeansIdle
    /\ \/ \E p \in 1..Len(Pipelines) : nb = PipelineInit(p)
       \/ \E ns \in NumberLists : nb = SquaresInit(ns)
       \/ \E ns \in NumberLists : nb = FilterInit(ns)
       \/ \E ns \in NumberLists : nb = ExerciseInit(ns)
       \/ \E f \in BinaryFunctions : \E list \in ReduceLists :
             \/ nb = ReduceInit(f, list, FALSE, 0)
             \/ \E initial \in 0..MaxVal : nb = ReduceInit(f, list, TRUE, initial)
       \/ \E f \in ListFunctions :
             \/ \E list \in Lists(0..MaxVal) : nb = FlatMapInit(f, list, FALSE)
             \/ \E list \in NestedLists : nb = FlatMapInit(f, list, TRUE)
       \/ nb = SetupInit
       \/ \E lines \in ArticlesFiles : nb = ArticlesInit(lines)
       \/ \E lines \in FhaFiles : nb = PandasInit(lines)
       \/ \E book \in 1..Len(Notebooks) : nb = RunInit(book)

NbNext ==
    \/ FitStage
    \/ TransformStage
    \/ Select
    \/ simple_squares
    \/ python_squares
    \/ python_squares_lambda
    \/ MapAny
    \/ filter_squares
    \/ python_filter_squares_lambda
    \/ FilterAny
    \/ FilterAgain
    \/ ExerciseLoop
    \/ ExerciseMapFilter
    \/ Parallelize
    \/ RunTask
    \/ Collect
    \/ ReduceStart
    \/ ReduceStep
    \/ FlatMapCall
    \/ ComprehensionCall
    \/ Ssh
    \/ Export
    \/ Pyspark
    \/ Tunnel
    \/ Browse
    \/ ReadArticlesPandas
    \/ ReadArticlesSpark
    \/ ReadFha
    \/ StateCode2Cell
    \/ FilterCell
    \/ RunStatement

NbSpec == NbInit /\ [][NbNext]_vars

-----------------------------------------------------------------------------
\* Properties of the notebook's cells.

\* C14: pipeline column wiring - in each of the three pipelines fitted on the
\* Articles dataframe every stage finds its input column (a column of data
\* or an earlier stage's output), KMeans finds a column named features and
\* every selected column exists, so that no run raises.
C14_ColumnWiring ==
    (nb.cell = "pipeline") =>
        nb.phase # "error"

\* The stages of the first pipeline, in list order, and the column each
\* hands to the next.
StageOrder == <<"tokenizer", "remover", "hashingTF", "kmeans">>
HandedOn == <<"words", "filtered", "features">>

\* C15: pipeline stage order - the first pipeline runs its stages strictly
\* in list order (tokenizer, remover, hashingTF, kmeans) in the fit pass and
\* again in the transform pass, no stage raises, every stage starts on a
\* dataframe that already has its input column, and every stage but the
\* first reads exactly the column its predecessor produced (words, filtered,
\* features).
C15_StageOrder ==
    (nb.cell = "pipeline" /\ nb.which = 1) =>
        /\ nb.phase # "error"
        /\ Len(nb.ran) <= 2 * Len(StageOrder)
        /\ \A i \in 1..Len(nb.ran) :
              LET k == ((i - 1) % Len(StageOrder)) + 1
              IN  /\ nb.ran[i].name = StageOrder[k]
                  /\ nb.ran[i].pass = IF i <= Len(StageOrder) THEN "fit" ELSE "transform"
                  /\ nb.ran[i].read \subseteq nb.ran[i].had
                  /\ (k = 1) => nb.ran[i].read = {"CleanedArticle"}
                  /\ (k > 1) => /\ nb.ran[i].read = {nb.ran[i - 1].wrote}
                                /\ nb.ran[i].read = {HandedOn[k - 1]}

\* The first pipeline was fitted, transformed data and its three columns
\* were selected: eight stage runs.
C15_Witness ==
    /\ nb.cell = "pipeline"
    /\ nb.which = 1
    /\ nb.phase = "done"
    /\ Len(nb.ran) = 2 * Len(StageOrder)
    /\ "prediction" \in nb.cols

\* C16: map equivalence - the append loop of simple_squares, map(square,
\* numbers) of python_squares and map(lambda x: x*x, numbers) of
\* python_squares_lambda return the same list, [ square(x) for x in numbers ],
\* of the same length and in the same order, [1,4,9,16,25] for [1,2,3,4,5];
\* and map(f, list) is [ f(x) for x in list ] for every f.
C16_MapEquivalence ==
    (nb.cell = "squares" /\ nb.pc = "done") =>
        /\ nb.squares = nb.by_map
        /\ nb.by_map = nb.by_lambda
        /\ nb.by_map = [i \in 1..Len(nb.numbers) |-> square[nb.numbers[i]]]
        /\ nb.mapped = [i \in 1..Len(nb.numbers) |-> nb.f[nb.numbers[i]]]
        /\ (nb.numbers = Numbers) => nb.by_lambda = <<1, 4, 9, 16, 25>>

\* The three functions returned [1,4,9,16,25] for [1,2,3,4,5], and map was
\* applied with an f that is not constant.
C16_Witness ==
    /\ nb.cell = "squares"
    /\ nb.pc = "done"
    /\ nb.numbers = Numbers
    /\ nb.squares = <<1, 4, 9, 16, 25>>
    /\ nb.by_map = <<1, 4, 9, 16, 25>>
    /\ nb.mapped = <<0, 1, 0, 1, 0>>

C18_ThreeStyles ==
    (nb.cell = "exercise" /\ nb.pc = "done") =>
        /\ nb.squares = nb.by_map_filter
        /\ nb.by_map_filter = nb.collected
        /\ (nb.numbers = Numbers) => nb.collected = <<1, 4, 9>>

\* [1,2,3,4,5] was cut into [1,2] and [3,4,5], the second partition's task
\* finished first, and collect returned [1,4,9].
C18_Witness ==
    /\ nb.cell = "exercise"
    /\ nb.pc = "done"
    /\ nb.numbers = Numbers
    /\ nb.slices = <<<<1, 2>>, <<3, 4, 5>>>>
    /\ nb.order = <<2, 1>>
    /\ nb.squares = <<1, 4, 9>>
    /\ nb.collected = <<1, 4, 9>>

\* C19: reduce recursion - while reduce folds, its accumulator after
\* consuming the elements at positions 0..i is a_i of the recursion
\* a_{-1} = initial, a_i = f(a_{i-1}, list_i) (started at a_0 = list_0 when
\* initial is omitted), and it returns a_{len(list)-1};
\* reduce(lambda x,y: x+y, [1,2,3,4]) returns 10.
C19_ReduceRecursion ==
    (nb.cell = "reduce" /\ nb.pc \in {"fold", "done"}) =>
        /\ nb.acc = IF nb.has_initial
                    THEN Recursion(nb.f, nb.list, nb.initial, nb.pos - 1)
                    ELSE RecursionNoInitial(nb.f, nb.list, nb.pos - 1)
        /\ (nb.pc = "done") => nb.pos = Len(nb.list)
        /\ (nb.pc = "done" /\ nb.f = "add" /\ nb.list = <<1, 2, 3, 4>> /\ ~nb.has_initial)
              => nb.acc = 10

\* reduce(lambda x,y: x+y, [1,2,3,4]) returned 10.
C19_Witness ==
    /\ nb.cell = "reduce"
    /\ nb.pc = "done"
    /\ nb.f = "add"
    /\ nb.list = <<1, 2, 3, 4>>
    /\ ~nb.has_initial
    /\ nb.acc = 10

\* C20: flatMap definition - flatMap(f, list), which applies f to every
\* element of list and concatenates the resulting lists in order, returns
\* what the comprehension [ f(x) for y in list for x in y ] returns, for
\* every list and every f that eats an element and gives a list.
C20_FlatMapComprehension ==
    (nb.cell = "flatMap" /\ nb.pc \in {"done", "error"}) =>
        /\ nb.pc = "done"
        /\ nb.comp = nb.flat

\* C21: classroom setup ordering and port agreement - after the guide's
\* steps in its order the page at http://localhost:8888 is the notebook; the
\* notebook server, whenever it runs, listens on the address and port of
\* the tunnel's remote end (127.0.0.1, 8889); and the page is never the
\* notebook unless both the notebook server and the tunnel are up.
C21_Setup ==
    (nb.cell = "setup") =>
        /\ (nb.steps = GuideSteps /\ nb.page # "none") => nb.page = "notebook"
        /\ (nb.server = "notebook") =>
              nb.listen = <<Resolve(TunnelRemoteHost), TunnelRemotePort>>
        /\ (nb.page = "notebook") =>
              /\ nb.tunnel
              /\ nb.server = "notebook"
              /\ \E i, j \in 1..Len(nb.steps) :
                    nb.steps[i] = "pyspark" /\ nb.steps[j] = "tunnel"

\* The guide was followed in its order and the browser shows the notebook.
C21_Witness ==
    /\ nb.cell = "setup"
    /\ nb.steps = GuideSteps
    /\ nb.page = "notebook"

\* ---------------------------------------------------------------------
\* Data frames in the pandas cells
\* ---------------------------------------------------------------------

ColumnSet(frame) == {frame.columns[i] : i \in 1..Len(frame.columns)}
IsHead == \E hidden \in HiddenLines : nb.file = FhaHead(hidden)
Column(frame, c) == [i \in 1..Len(frame.rows) |-> frame.rows[i][c]]
Floats(ns) == [i \in 1..Len(ns) |-> Float(ns[i])]

\* C22 as stated: a frame object created by a library call is never changed
\* afterwards: every object holds what it held when the call returned it.
C22_NeverMutated ==
    (nb.cell = "pandas") => nb.heap = nb.created

\* C22: the only change made to an existing frame object is the column
\* State_Code2, which the assignment df["State_Code2"] = ... adds to (or
\* replaces in) the object df is bound to, in place; the index, the number
\* and order of rows and every other column of every object stay as created;
\* the row filter builds a new object; and no cell writes a file.
C22_Lifecycle ==
    (nb.cell = "pandas") =>
        /\ nb.written = {}
        /\ Len(nb.created) = Len(nb.heap)
        /\ \A id \in 1..Len(nb.heap) :
              LET now == nb.heap[id]
                  was == nb.created[id]
              IN  /\ now.index = was.index
                  /\ Len(now.rows) = Len(was.rows)
                  /\ now.columns \in {was.columns, Append(was.columns, "State_Code2")}
                  /\ \A i \in 1..Len(was.rows) :
                        \A c \in ColumnSet(was) \ {"State_Code2"} :
                           now.rows[i][c] = was.rows[i][c]

\* The first object has gained a column after it was created, and the filter
\* has made a second object.
C22_Witness ==
    /\ nb.cell = "pandas"
    /\ Len(nb.heap) >= 2
    /\ nb.heap[1] # nb.created[1]
    /\ nb.heap[1].columns = Append(nb.created[1].columns, "State_Code2")

\* C23: Articles.csv is read with the delimiter "|" by pandas and by Spark,
\* its first line is taken as the header and gives exactly the columns
\* CleanedArticle and NewsType, every later line is one row; fha_by_tract.csv
\* is read at the comma with the nine supplied names, no line is taken as a
\* header and the first line of the file is data row 0.
C23_Readers ==
    /\ (nb.cell = "articles" /\ nb.pc = "done") =>
          LET p == nb.data_df[1]
              s == nb.data[1]
          IN  /\ p.columns = <<"CleanedArticle", "NewsType">>
              /\ s.columns = <<"CleanedArticle", "NewsType">>
              /\ Len(p.rows) = Len(nb.file) - 1
              /\ s.rows = p.rows
              /\ \A i \in 1..Len(p.rows) :
                    LET line == nb.file[i + 1]
                    IN  /\ DOMAIN p.rows[i] = {"CleanedArticle", "NewsType"}
                        /\ p.rows[i]["NewsType"] = <<line[Len(line)]>>
                        /\ p.rows[i]["CleanedArticle"] = SubSeq(line, 1, Len(line) - 2)
    /\ (nb.cell = "pandas" /\ nb.df # 0) =>
          LET first == nb.created[1]
          IN  /\ first.columns = names
              /\ Len(first.columns) = 9
              /\ Len(first.rows) = Len(nb.file)
              /\ first.index = [i \in 1..Len(nb.file) |-> i - 1]
              /\ \A i \in 1..Len(nb.file) :
                    \A j \in 1..Len(names) :
                       first.rows[i][names[j]] = Value(Split(nb.file[i], ",")[j])
              /\ IsHead =>
                    /\ first.rows[1]["State_Code"] = Float(8)
                    /\ first.rows[1]["County_Code"] = Float(75)
                    /\ first.rows[1]["Census_Tract_Number"] = NaN
                    /\ first.rows[1]["AMT_ALL"] = Float(258)

\* Both readers have read a file of three articles, one with a comma in its
\* text.
C23_Witness ==
    /\ nb.cell = "articles"
    /\ nb.pc = "done"
    /\ Len(nb.data[1].rows) = 3
    /\ \E i \in 1..3 : Len(nb.data_df[1].rows[i]["CleanedArticle"]) = 3

\* The positions of the rows of a frame whose county code is a number
\* greater than 75, and the k-th of a set of positions.
Kept(frame) ==
    {i \in 1..Len(frame.rows) :
        /\ ~frame.rows[i]["County_Code"].nan
        /\ frame.rows[i]["County_Code"].v > 75}
Nth(P, k) == CHOOSE i \in P : Cardinality({j \in P : j < i}) = k - 1

\* C24: the frame made by df[df['County_Code'] > 75] holds exactly the rows
\* whose county code is strictly greater than 75 (75.0 and NaN are dropped),
\* in their original order and under their original index labels, with
\* every column, State_Code2 included; from the printed rows it keeps those
\* labelled 3, 4, 5, 7, 8.
C24_RowFilter ==
    (nb.cell = "pandas") =>
        /\ \A id \in 2..Len(nb.heap) :
              LET old == nb.heap[id - 1]
                  new == nb.created[id]
                  P == Kept(old)
              IN  /\ new.columns = old.columns
                  /\ new.columns = Append(names, "State_Code2")
                  /\ Len(new.rows) = Cardinality(P)
                  /\ Len(new.index) = Cardinality(P)
                  /\ \A k \in 1..Cardinality(P) :
                        /\ new.rows[k] = old.rows[Nth(P, k)]
                        /\ new.index[k] = old.index[Nth(P, k)]
        /\ (IsHead /\ Len(nb.heap) >= 2) =>
              /\ nb.created[2].index = <<3, 4, 5, 7, 8>>
              /\ Column(nb.created[2], "County_Code") = Floats(<<113, 105, 86, 103, 119>>)
              /\ Column(nb.created[2], "State_Code") = Floats(<<39, 12, 12, 12, 36>>)
              /\ Column(nb.created[2], "State_Code2") = Floats(<<40, 13, 13, 13, 37>>)

\* The printed rows have been filtered; rows with county code 75.0 and with a
\* missing county code were among them.
C24_Witness ==
    /\ nb.cell = "pandas"
    /\ IsHead
    /\ Len(nb.heap) >= 2
    /\ nb.heap[1].rows[1]["County_Code"] = Float(75)
    /\ nb.heap[1].rows[7]["County_Code"] = NaN

\* C25: after df["State_Code2"] = df["State_Code"].apply(lambda x: x+1) every
\* row's State_Code2 is its State_Code plus 1 (NaN where State_Code is
\* missing), and the number of rows, their order and labels and the values of
\* the nine original columns are as read.
C25_Mapping ==
    (nb.cell = "pandas" /\ nb.log # <<>>) =>
        LET now == nb.heap[1]
            was == nb.created[1]
        IN  /\ now.columns = Append(names, "State_Code2")
            /\ Len(now.rows) = Len(was.rows)
            /\ now.index = was.index
            /\ \A i \in 1..Len(was.rows) :
                  /\ \A j \in 1..Len(names) :
                        now.rows[i][names[j]] = was.rows[i][names[j]]
                  /\ LET s == was.rows[i]["State_Code"]
                     IN  now.rows[i]["State_Code2"] =
                            IF s.nan THEN NaN ELSE Float(s.v + 1)
            /\ IsHead =>
                  SubSeq(Column(now, "State_Code2"), 1, 5) = Floats(<<9, 29, 41, 40, 13>>)

\* The cell has run on the printed rows.
C25_Witness ==
    /\ nb.cell = "pandas"
    /\ IsHead
    /\ nb.log = <<"State_Code2">>
    /\ nb.heap[1].rows[4]["State_Code2"] = Float(40)

\* The loop of filter_squares has run to its end on numbers = [1,2,3,4,5].
LoopDone ==
    /\ nb.cell = "filter"
    /\ nb.numbers = Numbers
    /\ nb.pc # "filter_squares"

C27_Frame ==
    [][ /\ (pc = "assign") => (cents' = cents /\ moved' = moved /\ objs' = objs)
        /\ (pc = "update") => (labels' = labels /\ changed' = changed)
        /\ rows' = rows
        /\ K' = K
        /\ DOMAIN cents' = 0..(K - 1)
        /\ \A k \in DOMAIN cents' : Len(cents'[k].s) = Len(rows[1])
        /\ (pc = "update") => Len(labels') = Len(rows) ]_vars

\* An assignment has changed labels and an update has moved a centroid.
C27_Witness ==
    /\ pc = "assign"
    /\ iter >= 1
    /\ changed
    /\ moved
    /\ cents # init
    /\ K >= 2

C29_Idempotent ==
    /\ [](nb.cell = "filter" /\ nb.pc = "again" => nb.again = nb.filtered)
    /\ [][ (/\ nb.cell = "pandas"
            /\ nb.df # 0
            /\ Len(nb'.log) > Len(nb.log)
            /\ \E i \in 1..Len(nb.log) : nb.log[i] = nb'.log[Len(nb'.log)])
           => nb'.heap[nb'.df] = nb.heap[nb.df] ]_vars

\* A predicate that keeps some and drops some of [1,2,3,4,5] has been
\* applied to its own result.
C29_Witness ==
    /\ nb.cell = "filter"
    /\ nb.pc = "again"
    /\ nb.numbers = Numbers
    /\ nb.filtered = <<2, 5>>
    /\ nb.again = <<2, 5>>

\* The run has passed the last cell of its notebook.
RunDone == nb.cell = "run" /\ nb.at > Len(Notebooks[nb.book])

\* C30: define-before-use under in-order execution.  Running the code cells
\* of either notebook in order, every name a statement reads has been bound
\* by an earlier statement or cell, or is provided by the pyspark session
\* (spark, sc) or by Python: no read meets an unbound name.
C30_DefineBeforeUse ==
    (nb.cell = "run") =>
        /\ nb.errors = {}
        /\ RunDone =>
              \/ /\ nb.book = 1
                 /\ {"metrics", "data", "prepath", "spark", "VectorAssembler"} \subseteq nb.resolved
              \/ /\ nb.book = 2
                 /\ {"df", "numbers", "square", "sc"} \subseteq nb.resolved

\* The clustering notebook has been run to its end: metrics was read in the
\* second cell, bound by the first; spark was read from the session.
C30_Witness ==
    /\ RunDone
    /\ nb.book = 1
    /\ {"metrics", "spark", "data", "prepath"} \subseteq nb.resolved
    /\ "selected" \in nb.bound

====
